---- MODULE Spec2Model ----
(***************************************************************************)
(* Model of the event-driven state of App (src/app.jsx): the ripple        *)
(* collection kept by useState and driven by handleWaterClick and its      *)
(* setTimeout callbacks, and the cursor tracking of the mount effect       *)
(* (updateCursor, its requestAnimationFrame callback and the pointer       *)
(* listeners).  The model covers one mounted instance of App: Init is the  *)
(* state right after the mount effect has run.                             *)
(***************************************************************************)
EXTENDS Integers, Sequences, FiniteSets, TLC

\* ---------------------------------------------------------------- bounds
MaxClicks == 2      \* clicks handled in one behaviour
MaxEvents == 3      \* position-bearing pointer events in one behaviour
MaxCoord  == 1      \* clientX / clientY range over 0..MaxCoord
MaxTime   == 3000   \* last clock reading (ms) of a behaviour

\* the delay handed to setTimeout, in ms
RippleLifetime == 2000

Coords == 0 .. MaxCoord
\* amounts (ms) by which the clock advances between two event-loop tasks
TickSteps == {1000, 1999}
\* the touch lists a TouchEvent may carry (each touch a client position)
Points == [clientX : Coords, clientY : Coords]
TouchLists == {<< >>} \cup {<<p>> : p \in Points}
                      \cup {<<p, q>> : p \in Points, q \in {[clientX |-> 0, clientY |-> 0]}}
\* <<window.innerWidth, window.innerHeight>> at mount: one even, one odd
WindowSizes == {<<MaxCoord + 1, MaxCoord + 2>>, <<MaxCoord + 2, MaxCoord + 1>>}

Min(a, b) == IF a <= b THEN a ELSE b

VARIABLES
    \* ---- ripple state
    ripples,    \* the useState value: sequence of ripple objects
    timers,     \* pending setTimeout callbacks: [ripple, due]
    now,        \* the clock read by Date.now() and by the timer queue
    clicks,     \* history: the click events handled so far, in order
    \* ---- cursor state
    ticking,    \* the effect's closure variable
    rafQueue,   \* pending requestAnimationFrame callbacks: [x, y, ev]
    cursorX,    \* value of --cursor-x on documentElement.style
    cursorY,    \* value of --cursor-y
    innerWidth, \* window.innerWidth read at mount
    innerHeight,
    events,     \* history: positions of the pointer events dispatched so far
    srcX,       \* history: index in events of the event that wrote cursorX (0: mount)
    srcY        \* history: same for cursorY

rippleVars == <<ripples, timers, now, clicks>>
cursorVars == <<ticking, rafQueue, cursorX, cursorY, innerWidth, innerHeight,
                events, srcX, srcY>>
vars == <<ripples, timers, now, clicks, ticking, rafQueue, cursorX, cursorY,
          innerWidth, innerHeight, events, srcX, srcY>>

\* ------------------------------------------------------------ formatting
\* A JS number that is an integer or a half, as the template literal prints it:
\* the digits of n/d in lowest terms.
Num(n, d) == IF n % d = 0 THEN [int |-> n \div d, frac |-> ""]
                          ELSE [int |-> n \div d, frac |-> ".5"]
\* `${v}px`
Px(v) == [num |-> v, unit |-> "px"]

\* --------------------------------------------------------------- ripples
\* { id: Date.now(), x: e.clientX, y: e.clientY }; obj is the object's identity
NewRipple(obj, t, e) == [obj |-> obj, id |-> t, x |-> e.clientX, y |-> e.clientY]

\* () => [newRipple]
AddRippleReplace(prev, newRipple) == <<newRipple>>
\* (prev) => [...prev, newRipple]
AddRipple(prev, newRipple) == Append(prev, newRipple)

\* prev.filter((r) => r.id === newRipple.id)
RemoveRippleInverted(prev, id) == SelectSeq(prev, LAMBDA r : r.id = id)
\* prev.filter((r) => r.id = newRipple.id): the assignment stamps every record
\* and its value decides what is kept
RemoveRippleAssigning(prev, id) ==
    IF id = 0 THEN << >>
    ELSE [i \in DOMAIN prev |-> [prev[i] EXCEPT !.id = id]]
\* (prev) => prev.filter((r) => r.id !== newRipple.id)
RemoveRipple(prev, id) == SelectSeq(prev, LAMBDA r : r.id # id)

\* a longer delay than the one the records are meant to live
TimerDueLate(t) == t + RippleLifetime + 1000
\* setTimeout(cb, 2000) called at clock reading t: cb runs no earlier than this
TimerDue(t) == t + RippleLifetime

handleWaterClick(e) ==
    /\ Len(clicks) < MaxClicks
    /\ now + RippleLifetime <= MaxTime
    /\ LET newRipple == NewRipple(Len(clicks) + 1, now, e)
       IN  /\ ripples' = AddRipple(ripples, newRipple)
           /\ timers' = timers \cup {[ripple |-> newRipple, due |-> TimerDue(now)]}
    /\ clicks' = Append(clicks, [t |-> now, clientX |-> e.clientX, clientY |-> e.clientY])
    /\ UNCHANGED now
    /\ UNCHANGED cursorVars

\* the arrow function handed to setTimeout, run by the timer queue
RippleTimeout(obj) ==
    \E tm \in timers :
        /\ tm.ripple.obj = obj
        /\ tm.due <= now
        /\ ripples' = RemoveRipple(ripples, tm.ripple.id)
        /\ timers' = timers \ {tm}
        /\ UNCHANGED <<now, clicks>>
        /\ UNCHANGED cursorVars

\* time passes between two tasks
Tick ==
    /\ now < MaxTime
    /\ \E d \in TickSteps : now' = Min(now + d, MaxTime)
    /\ UNCHANGED <<ripples, timers, clicks>>
    /\ UNCHANGED cursorVars

\* ---------------------------------------------------------------- cursor
\* updateCursor without the ticking test and assignment
updateCursorNoFlag(x, y, ev) ==
    /\ rafQueue' = Append(rafQueue, [x |-> x, y |-> y, ev |-> ev])
    /\ UNCHANGED <<ticking, cursorX, cursorY, srcX, srcY>>
\* updateCursor(x, y), called for the event numbered ev
updateCursor(x, y, ev) ==
    IF ~ticking
    THEN /\ rafQueue' = Append(rafQueue, [x |-> x, y |-> y, ev |-> ev])
         /\ ticking' = TRUE
         /\ UNCHANGED <<cursorX, cursorY, srcX, srcY>>
    ELSE UNCHANGED <<ticking, rafQueue, cursorX, cursorY, srcX, srcY>>

\* (e: MouseEvent) => updateCursor(e.clientX, e.clientY)
handleMouseMove(e) ==
    /\ Len(events) < MaxEvents
    /\ events' = Append(events, e)
    /\ updateCursor(e.clientX, e.clientY, Len(events) + 1)
    /\ UNCHANGED <<innerWidth, innerHeight>>
    /\ UNCHANGED rippleVars

\* (e: TouchEvent) => if (e.touches.length > 0) updateCursor(touches[0]...)
handleTouchMove(touches) ==
    IF Len(touches) > 0
    THEN /\ Len(events) < MaxEvents
         /\ events' = Append(events, touches[1])
         /\ updateCursor(touches[1].clientX, touches[1].clientY, Len(events) + 1)
         /\ UNCHANGED <<innerWidth, innerHeight>>
         /\ UNCHANGED rippleVars
    ELSE UNCHANGED vars

\* the three listeners registered by the effect
MouseMove == \E e \in Points : handleMouseMove(e)
TouchMove == \E touches \in TouchLists : handleTouchMove(touches)
TouchStart == \E touches \in TouchLists : handleTouchMove(touches)

\* the frame callback without `ticking = false`
FrameCallbackKeepsFlag ==
    /\ rafQueue # << >>
    /\ LET cb == Head(rafQueue)
       IN  /\ cursorX' = Px(Num(cb.x, 1))
           /\ cursorY' = Px(Num(cb.y, 1))
           /\ srcX' = cb.ev
           /\ srcY' = cb.ev
    /\ rafQueue' = Tail(rafQueue)
    /\ UNCHANGED <<ticking, innerWidth, innerHeight, events>>
    /\ UNCHANGED rippleVars
\* the frame callback reading y from the latest event instead of its closure
FrameCallbackLatestY ==
    /\ rafQueue # << >>
    /\ LET cb == Head(rafQueue)
           last == events[Len(events)]
       IN  /\ cursorX' = Px(Num(cb.x, 1))
           /\ cursorY' = Px(Num(last.clientY, 1))
           /\ srcX' = cb.ev
           /\ srcY' = Len(events)
    /\ ticking' = FALSE
    /\ rafQueue' = Tail(rafQueue)
    /\ UNCHANGED <<innerWidth, innerHeight, events>>
    /\ UNCHANGED rippleVars
\* the arrow function handed to requestAnimationFrame, run at the next frame
FrameCallback ==
    /\ rafQueue # << >>
    /\ LET cb == Head(rafQueue)
       IN  /\ cursorX' = Px(Num(cb.x, 1))
           /\ cursorY' = Px(Num(cb.y, 1))
           /\ srcX' = cb.ev
           /\ srcY' = cb.ev
    /\ ticking' = FALSE
    /\ rafQueue' = Tail(rafQueue)
    /\ UNCHANGED <<innerWidth, innerHeight, events>>
    /\ UNCHANGED rippleVars

\* ------------------------------------------------------- specifications
\* useState([]) and the body of the mount effect
Init ==
    /\ ripples = << >>
    /\ timers = {}
    /\ now = 0
    /\ clicks = << >>
    /\ ticking = FALSE
    /\ rafQueue = << >>
    /\ \E w \in WindowSizes : innerWidth = w[1] /\ innerHeight = w[2]
    /\ cursorX = Px(Num(innerWidth, 2))
    /\ cursorY = Px(Num(innerHeight, 2))
    /\ events = << >>
    /\ srcX = 0
    /\ srcY = 0

Click == \E e \in Points : handleWaterClick(e)
Timeout == \E obj \in 1 .. MaxClicks : RippleTimeout(obj)

RippleNext == Click \/ Timeout \/ Tick
CursorNext == MouseMove \/ TouchMove \/ TouchStart \/ FrameCallback
Next == RippleNext \/ CursorNext

Spec == Init /\ [][Next]_vars
\* the ripple collection alone (the cursor state is never read or written by it)
RippleSpec == Init /\ [][RippleNext]_vars
\* the cursor tracking alone
CursorSpec == Init /\ [][CursorNext]_vars
\* the event loop runs every due timer callback and the clock keeps advancing
RippleFairSpec ==
    /\ RippleSpec
    /\ WF_vars(Tick)
    /\ \A obj \in 1 .. MaxClicks : WF_vars(RippleTimeout(obj))
\* the browser keeps producing frames, so a queued frame callback runs
CursorFairSpec == CursorSpec /\ WF_vars(FrameCallback)

\* ------------------------------------------------- properties: ripples
\* the ripple object made by click number c is in the collection
InCollection(c) == \E i \in DOMAIN ripples : ripples[i].obj = c
\* the timer callback of click number c has run
TimerRan(c) == c <= Len(clicks) /\ \A tm \in timers : tm.ripple.obj # c
\* age in ms of the ripple object r
Age(r) == now - clicks[r.obj].t

\* C1: a step that handles a click leaves the collection equal to the previous
\* collection followed by exactly one new record, which carries the click's
\* clientX and clientY; every record already present stays, in place.
C1_ClickAddsOne ==
    [][Len(clicks') = Len(clicks) + 1 =>
        LET e == clicks'[Len(clicks')]
        IN  /\ Len(ripples') = Len(ripples) + 1
            /\ SubSeq(ripples', 1, Len(ripples)) = ripples
            /\ ripples'[Len(ripples')].x = e.clientX
            /\ ripples'[Len(ripples')].y = e.clientY]_vars
\* a click was handled while an earlier ripple was still in the collection
C1_Witness ==
    /\ Len(ripples) >= 2
    /\ ripples[Len(ripples)].obj = Len(clicks)

\* C2: every ripple record added to the collection is eventually removed from
\* it, and the collection ends up empty once the clicks have stopped.
C2_EventuallyRemoved ==
    /\ \A c \in 1 .. MaxClicks : InCollection(c) ~> ~InCollection(c)
    /\ <>[](ripples = << >>)
\* every click's ripple has been removed by a timer callback
C2_Witness ==
    /\ Len(clicks) = MaxClicks
    /\ \A c \in 1 .. Len(clicks) : TimerRan(c) /\ ~InCollection(c)

\* C3 as stated: every ripple record in the collection is younger than
\* 2000 ms.
C3_YoungerThanLifetime ==
    \A i \in DOMAIN ripples : Age(ripples[i]) < RippleLifetime
\* C3 amended: a ripple record in the collection is younger than 2000 ms, or
\* its own timer callback is due and has not run yet.
C3_YoungOrTimerDue ==
    \A i \in DOMAIN ripples :
        \/ Age(ripples[i]) < RippleLifetime
        \/ \E tm \in timers : tm.ripple.obj = ripples[i].obj /\ tm.due <= now
\* a ripple of age 2000 ms or more is in the collection, waiting for its timer
C3_Witness ==
    \E i \in DOMAIN ripples : Age(ripples[i]) >= RippleLifetime

\* C4 as stated: a timer callback removes the ripple of its own click and
\* leaves the ripples of all other clicks in the collection.
C4_RemovesOnlyOwn ==
    [][\A tm \in timers : tm \notin timers' =>
        ripples' = SelectSeq(ripples, LAMBDA r : r.obj # tm.ripple.obj)]_vars

\* C5: every ripple record in the collection has the id, x and y it was
\* created with (the clock reading and the position of its click).
C5_NeverMutated ==
    \A i \in DOMAIN ripples :
        LET r == ripples[i]
        IN  /\ r.obj \in DOMAIN clicks
            /\ r.id = clicks[r.obj].t
            /\ r.x = clicks[r.obj].clientX
            /\ r.y = clicks[r.obj].clientY
\* a ripple that is still in the collection after a later click was handled
\* and after the timer callback of another click has run
C5_Witness ==
    \E i \in DOMAIN ripples :
        /\ ripples[i].obj < Len(clicks)
        /\ \E c \in 1 .. Len(clicks) : c # ripples[i].obj /\ TimerRan(c)

\* C8 as stated: the ripple records in the collection have pairwise
\* distinct ids.
C8_DistinctIds ==
    \A i, j \in DOMAIN ripples : i # j => ripples[i].id # ripples[j].id

\* -------------------------------------------------- properties: cursor
\* C6: at most one frame callback is pending after every step, and a pointer
\* event dispatched while one is pending leaves the flag, the pending
\* callback and both style variables as they were.
C6_OneUpdatePerFrame ==
    [][/\ Len(rafQueue') <= 1
       /\ (Len(events') > Len(events) /\ Len(rafQueue) >= 1) =>
            UNCHANGED <<ticking, rafQueue, cursorX, cursorY>>]_vars
\* a pointer event was dispatched while a frame callback was pending
C6_Witness ==
    /\ Len(rafQueue) = 1
    /\ rafQueue[1].ev < Len(events)

\* C7 as stated: when no frame callback is pending, the style variables hold
\* the coordinates of the most recent pointer event.
C7_TracksLatestEvent ==
    (rafQueue = << >> /\ events # << >>) =>
        /\ cursorX = Px(Num(events[Len(events)].clientX, 1))
        /\ cursorY = Px(Num(events[Len(events)].clientY, 1))

\* C9: ticking is true exactly when one frame callback is pending, and
\* whenever it is true it eventually becomes false again.
C9_FlagMatchesPending ==
    /\ [](ticking <=> Len(rafQueue) = 1)
    /\ [](~ticking <=> rafQueue = << >>)
    /\ ticking ~> ~ticking
\* a frame callback has run and a later pointer event scheduled a new one
C9_Witness ==
    /\ srcX >= 1
    /\ ticking
    /\ Len(rafQueue) = 1
    /\ rafQueue[1].ev > srcX

\* C10: both style variables come from one source: the window centre read at
\* mount, or the position of the one event whose frame callback wrote them.
C10_SameSource ==
    /\ srcX = srcY
    /\ IF srcX = 0
       THEN /\ cursorX = Px(Num(innerWidth, 2))
            /\ cursorY = Px(Num(innerHeight, 2))
       ELSE /\ srcX \in DOMAIN events
            /\ cursorX = Px(Num(events[srcX].clientX, 1))
            /\ cursorY = Px(Num(events[srcX].clientY, 1))
\* a frame callback wrote the variables after later events had been dispatched
C10_Witness ==
    /\ srcX >= 1
    /\ Len(events) > srcX
    /\ events[Len(events)] # events[srcX]

====
